---- MODULE Spec2Model ----
(***************************************************************************)
(* Rubik's-Cube state and move engine (src/src/logic/Cube.js).             *)
(*                                                                         *)
(* A cube object holds, for each of its six faces, an array of row arrays. *)
(* Rows are heap objects: `heap' maps a row identity to the row's          *)
(* contents, and a cube is a table of row identities.  The operations of   *)
(* class Cube are first given as functions on grid values (a face grid is  *)
(* a sequence of rows, a row a sequence of colors) and then lifted to the  *)
(* heap, where rotateFace* installs freshly allocated rows and             *)
(* moveFFaceStickers writes into the existing ones.                        *)
(*                                                                         *)
(* JavaScript indexes from 0, TLA+ sequences from 1: JS faces.X[i][j] is   *)
(* faces[X][i+1][j+1] below.  A move name is the sequence of its           *)
(* characters: "F'" is <<"F", "'">>.                                       *)
(***************************************************************************)
EXTENDS Integers, Sequences, FiniteSets, TLC

VARIABLES
    size,      \* Cube.size
    heap,      \* row identity -> row contents (<<>> for an unallocated row)
    cube,      \* the cube object: face -> sequence of row identities
    twin,      \* a second cube object made by cube.clone() (no rows before)
    thrown,    \* TRUE iff the last call ended with an exception
    steps,     \* number of operations performed so far
    last,      \* the operation performed last
    gen,       \* the running call of Scrambler.generateScramble
    app,       \* the App component: its cube state, mode and import result
    anim       \* the App component: its solve and scramble animations

vars == <<size, heap, cube, twin, thrown, steps, last, gen, app, anim>>

(***************************************************************************)
(* Bounds of the model.                                                    *)
(***************************************************************************)
MaxSteps == 3

\* Longest scramble asked of Scrambler.generateScramble.
MaxLength == 2

\* Animation closures (animate, continueAnimation) with a timer pending at
\* the same time.
MaxClosures == 2

\* Longest scramble animated by handleScramble.
MaxScramble == 1

\* Scramble animations (calls of handleScramble) with a timer pending at
\* the same time.
MaxChains == 2

(***************************************************************************)
(* Program constants.                                                      *)
(***************************************************************************)
Sizes == {2, 3, 4}

FaceOrder == <<"U", "D", "L", "R", "F", "B">>

Faces == {FaceOrder[k] : k \in 1..Len(FaceOrder)}

Colors == {"W", "Y", "G", "B", "R", "O"}

defaultColors == [f \in Faces |->
    CASE f = "U" -> "W" [] f = "D" -> "Y" [] f = "L" -> "G"
      [] f = "R" -> "B" [] f = "F" -> "R" [] f = "B" -> "O"]

(***************************************************************************)
(* Cube on grid values.                                                    *)
(***************************************************************************)
initializeFaces(N, initializeAsBlank) ==
    [f \in Faces |-> [r \in 1..N |-> [c \in 1..N |->
        IF initializeAsBlank THEN "W" ELSE defaultColors[f]]]]

\* Math.random(), in thousandths: call number n (from 0) of a run returns
\* random[(n % Len(random)) + 1] / 1000.
RandomAt(random, n) == random[(n % Len(random)) + 1]

\* The shuffle of Cube.generateRandomConfiguration, its iterations from
\* index i = hi down to i = lo (0-based): j = Math.floor(Math.random() *
\* (i + 1)), then colorArray[i] and colorArray[j] change places.
\* colorArray[k] is a[k + 1]; the iterations are done half by half.
RECURSIVE shuffle(_, _, _, _)
shuffle(a, hi, lo, random) ==
    IF hi < lo THEN a
    ELSE IF hi = lo
    THEN LET i == hi
             j == (RandomAt(random, (Len(a) - 1) - i) * (i + 1)) \div 1000
         IN  IF j = i THEN a
             ELSE SubSeq(a, 1, j) \o <<a[i + 1]>>
                    \o SubSeq(a, j + 2, i) \o <<a[j + 1]>>
                    \o SubSeq(a, i + 2, Len(a))
    ELSE LET mid == (hi + lo) \div 2
             upper == shuffle(a, hi, mid + 1, random)
         IN  IF Len(upper) = Len(a) THEN shuffle(upper, mid, lo, random)
             ELSE upper

\* Cube.generateRandomConfiguration: N * N stickers of each color in the
\* order W, Y, G, B, R, O, shuffled, and assigned face by face (in the
\* order of the keys of faces), row by row.
generateRandomConfiguration(N, random) ==
    LET colors == <<"W", "Y", "G", "B", "R", "O">>
        totalStickers == N * N * 6
        stickersPerColor == totalStickers \div 6
        colorArray == [k \in 1..totalStickers |->
                          colors[((k - 1) \div stickersPerColor) + 1]]
        shuffled == shuffle(colorArray, totalStickers - 1, 1, random)
    IN  [f \in Faces |-> [r \in 1..N |-> [c \in 1..N |->
            LET k == CHOOSE p \in 1..Len(FaceOrder) : FaceOrder[p] = f
            IN  shuffled[(k - 1) * N * N + (r - 1) * N + c]]]]

\* A test that also wants the six faces to carry six different colors.
isSolvedSixColors(faces, N) ==
    /\ \A f \in Faces : \A i \in 1..N : \A j \in 1..N :
          faces[f][i][j] = faces[f][1][1]
    /\ \A f \in Faces : \A g \in Faces \ {f} : faces[f][1][1] # faces[g][1][1]

isSolved(faces, N) ==
    \A f \in Faces : \A i \in 1..N : \A j \in 1..N :
        faces[f][i][j] = faces[f][1][1]

\* A rotation that only transposes: newMatrix[j][i] = faceMatrix[i][j]
transposeFace(faces, N, face) ==
    [f \in Faces |->
        IF f = face
        THEN [a \in 1..N |-> [b \in 1..N |-> faces[face][b][a]]]
        ELSE faces[f]]

\* newMatrix[j][size-1-i] = faceMatrix[i][j]; this.faces[face] = newMatrix
rotateFaceClockwise(faces, N, face) ==
    [f \in Faces |->
        IF f = face
        THEN [a \in 1..N |-> [b \in 1..N |-> faces[face][N + 1 - b][a]]]
        ELSE faces[f]]

\* newMatrix[size-1-j][i] = faceMatrix[i][j]; this.faces[face] = newMatrix
rotateFaceCounterClockwise(faces, N, face) ==
    [f \in Faces |->
        IF f = face
        THEN [a \in 1..N |-> [b \in 1..N |-> faces[face][b][N + 1 - a]]]
        ELSE faces[f]]

\* The result of a call: the grids it leaves and whether it threw.
Returned(faces) == [faces |-> faces, thrown |-> FALSE]

Threw(faces) == [faces |-> faces, thrown |-> TRUE]

\* for (i = 0; i < size; i++) this.faces.X[row][i] = vals[i]
WriteRow(faces, N, X, row, vals) ==
    [f \in Faces |->
        IF f = X
        THEN [r \in DOMAIN faces[X] |->
                IF r = row
                THEN [k \in 1..N |-> vals[k]]
                ELSE faces[X][r]]
        ELSE faces[f]]

\* for (i = 0; i < size; i++) this.faces.X[i][col] = vals[i]
WriteCol(faces, N, X, col, vals) ==
    [f \in Faces |->
        IF f = X
        THEN [r \in DOMAIN faces[X] |->
                [k \in DOMAIN faces[X][r] |->
                    IF k = col THEN vals[r] ELSE faces[X][r][k]]]
        ELSE faces[f]]

moveFFaceStickers(faces, N, clockwise) ==
    IF clockwise
    THEN \* temp = [...this.faces.U[2]]: spreading undefined is a TypeError
         IF 3 \notin DOMAIN faces["U"]
         THEN Threw(faces)
         ELSE LET temp == faces["U"][3]
                  f1 == WriteRow(faces, N, "U", N,
                                 [i \in 1..N |-> faces["L"][N + 1 - i][N]])
                  f2 == WriteCol(f1, N, "L", N, [i \in 1..N |-> f1["D"][1][i]])
                  f3 == WriteRow(f2, N, "D", 1,
                                 [i \in 1..N |-> f2["R"][N + 1 - i][1]])
                  f4 == WriteCol(f3, N, "R", 1, [i \in 1..N |-> temp[i]])
              IN  Returned(f4)
    ELSE LET temp == faces["U"][N]
             f1 == WriteRow(faces, N, "U", N, [i \in 1..N |-> faces["R"][i][1]])
             f2 == WriteCol(f1, N, "R", 1,
                            [i \in 1..N |-> f1["D"][1][N + 1 - i]])
             f3 == WriteRow(f2, N, "D", 1, [i \in 1..N |-> f2["L"][i][N]])
             \* this.faces.L[size-1-i][size-1] = temp[i]
             f4 == WriteCol(f3, N, "L", N, [i \in 1..N |-> temp[N + 1 - i]])
         IN  Returned(f4)

\* A B turn that carries R's right column to U's top row.
moveBFaceStickersToU(faces, N, clockwise) ==
    Returned(WriteRow(faces, N, "U", 1, [i \in 1..N |-> faces["R"][i][N]]))

moveBFaceStickers(faces, N, clockwise) == Returned(faces)

moveUFaceStickers(faces, N, clockwise) == Returned(faces)

moveDFaceStickers(faces, N, clockwise) == Returned(faces)

moveLFaceStickers(faces, N, clockwise) == Returned(faces)

moveRFaceStickers(faces, N, clockwise) == Returned(faces)

\* moveName.includes("'")
includes(moveName, ch) == \E k \in 1..Len(moveName) : moveName[k] = ch

\* moveName.replace("'", ""): the first occurrence only
replace(moveName, ch) ==
    IF includes(moveName, ch)
    THEN LET k == CHOOSE p \in 1..Len(moveName) :
                      /\ moveName[p] = ch
                      /\ \A q \in 1..(p - 1) : moveName[q] # ch
         IN  SubSeq(moveName, 1, k - 1) \o SubSeq(moveName, k + 1, Len(moveName))
    ELSE moveName

\* A switch that goes by the first letter of the name, so that 'U2' turns U
\* by a quarter.
switchFaceByFirstLetter(moveName) ==
    LET face == replace(moveName, "'")
    IN  IF Len(face) >= 1 /\ face[1] \in Faces THEN face[1] ELSE ""

\* The face a move name selects in move's switch, "" when no case matches.
switchFace(moveName) ==
    LET face == replace(moveName, "'")
    IN  IF Len(face) = 1 /\ face[1] \in Faces THEN face[1] ELSE ""

move(faces, N, moveName) ==
    LET isPrime == includes(moveName, "'")
        face == switchFace(moveName)
        rotated == IF isPrime THEN rotateFaceCounterClockwise(faces, N, face)
                              ELSE rotateFaceClockwise(faces, N, face)
    IN  CASE face = "F" -> moveFFaceStickers(rotated, N, ~isPrime)
          [] face = "B" -> moveBFaceStickers(rotated, N, ~isPrime)
          [] face = "U" -> moveUFaceStickers(rotated, N, ~isPrime)
          [] face = "D" -> moveDFaceStickers(rotated, N, ~isPrime)
          [] face = "L" -> moveLFaceStickers(rotated, N, ~isPrime)
          [] face = "R" -> moveRFaceStickers(rotated, N, ~isPrime)
          [] OTHER -> Returned(faces)

(***************************************************************************)
(* Move names.                                                             *)
(***************************************************************************)
\* A move table that gives every size the slice moves of the big cubes.
getMovesWithSlices(N) ==
    << <<"F">>, <<"F", "'">>, <<"R">>, <<"R", "'">>, <<"U">>, <<"U", "'">>,
       <<"f">>, <<"f", "'">>, <<"r">>, <<"r", "'">>, <<"u">>, <<"u", "'">> >>

\* Scrambler.getMovesForSize
getMovesForSize(N) ==
    IF N = 2
    THEN << <<"F">>, <<"F", "'">>, <<"R">>, <<"R", "'">>, <<"U">>, <<"U", "'">> >>
    ELSE IF N = 3
    THEN << <<"F">>, <<"F", "'">>, <<"R">>, <<"R", "'">>, <<"U">>, <<"U", "'">>,
            <<"B">>, <<"B", "'">>, <<"L">>, <<"L", "'">>, <<"D">>, <<"D", "'">> >>
    ELSE << <<"F">>, <<"F", "'">>, <<"R">>, <<"R", "'">>, <<"U">>, <<"U", "'">>,
            <<"B">>, <<"B", "'">>, <<"L">>, <<"L", "'">>, <<"D">>, <<"D", "'">>,
            <<"f">>, <<"f", "'">>, <<"r">>, <<"r", "'">>, <<"u">>, <<"u", "'">>,
            <<"b">>, <<"b", "'">>, <<"l">>, <<"l", "'">>, <<"d">>, <<"d", "'">> >>

ScramblerMoves(N) == {getMovesForSize(N)[k] : k \in 1..Len(getMovesForSize(N))}

\* Scrambler.applyScramble: for (const move of scramble) cube.move(move).
\* A call of move that throws ends the loop: the moves after it are not
\* applied.
RECURSIVE applyScramble(_, _, _)
applyScramble(faces, N, scramble) ==
    IF scramble = <<>>
    THEN Returned(faces)
    ELSE IF move(faces, N, Head(scramble)).thrown
         THEN Threw(move(faces, N, Head(scramble)).faces)
         ELSE applyScramble(move(faces, N, Head(scramble)).faces, N,
                            Tail(scramble))

\* The quarter turns of the six faces: X and X'.
QuarterMoves == {<<f>> : f \in Faces} \cup {<<f, "'">> : f \in Faces}

\* The other move names Solver.generateEfficientMoves emits: a half turn
\* and wide moves.
OtherMoves == {<<"U", "2">>, <<"R", "w">>, <<"R", "w", "'">>}

(***************************************************************************)
(* Scrambler: the choice of the next move of a scramble.                   *)
(***************************************************************************)
\* No call of generateScramble has been made.
NoCall == [pc |-> "idle", length |-> 0, scramble |-> <<>>,
           lastMove |-> <<>>, lastAxis |-> <<>>]

\* String.prototype.toLowerCase on one character.
toLowerCase(ch) ==
    LET upper == <<"A", "B", "C", "D", "E", "F", "G", "H", "I", "J", "K", "L",
                   "M", "N", "O", "P", "Q", "R", "S", "T", "U", "V", "W", "X",
                   "Y", "Z">>
        lower == <<"a", "b", "c", "d", "e", "f", "g", "h", "i", "j", "k", "l",
                   "m", "n", "o", "p", "q", "r", "s", "t", "u", "v", "w", "x",
                   "y", "z">>
    IN  IF \E i \in 1..26 : upper[i] = ch
        THEN lower[CHOOSE i \in 1..26 : upper[i] = ch]
        ELSE ch

\* An axis function that tells the two faces of an axis apart.
getMoveAxisPerFace(m) == replace(m, "'")

\* An axis function that puts every move on one axis.
getMoveAxisSingle(m) == <<"x">>

\* Scrambler.getMoveAxis: move.replace(/'/, '').toLowerCase(), then the
\* switch; a name of no face is its own axis.
getMoveAxis(m) ==
    LET face == [k \in 1..Len(replace(m, "'")) |-> toLowerCase(replace(m, "'")[k])]
    IN  CASE face \in {<<"f">>, <<"b">>} -> <<"x">>
          [] face \in {<<"r">>, <<"l">>} -> <<"y">>
          [] face \in {<<"u">>, <<"d">>} -> <<"z">>
          [] OTHER -> face

\* Scrambler.getRandomMove: the moves left by the filter; Math.random
\* picks any of them, and null is returned when none is left.
availableMoves(moves, lastMove, lastAxis) ==
    {m \in moves : m # lastMove /\ getMoveAxis(m) # lastAxis}

(***************************************************************************)
(* Solver.                                                                 *)
(***************************************************************************)
\* Solver.generateEfficientMoves
generateEfficientMoves(N) ==
    IF N = 2
    THEN << <<"R">>, <<"U">>, <<"R", "'">>, <<"F">>, <<"R", "'">>, <<"F", "'">>, <<"R">>,
            <<"U">>, <<"R">>, <<"U", "2">>, <<"R", "'">>, <<"U", "'">>, <<"R">>,
            <<"U", "'">>, <<"R", "'">>,
            <<"R">>, <<"U">>, <<"R", "'">>, <<"F", "'">>, <<"R", "'">>, <<"F", "'">> >>
    ELSE IF N = 3
    THEN << <<"F">>, <<"R">>, <<"U">>, <<"R", "'">>, <<"U", "'">>, <<"F", "'">>,
            <<"R">>, <<"U">>, <<"R", "'">>, <<"U">>, <<"R">>, <<"U", "2">>, <<"R", "'">>,
            <<"U">>, <<"R">>, <<"U", "2">>, <<"R", "'">>, <<"U", "'">>, <<"R">>,
            <<"U", "'">>, <<"R", "'">>,
            <<"R">>, <<"U">>, <<"R", "'">>, <<"F", "'">>, <<"R", "'">>, <<"F", "'">> >>
    ELSE << <<"R", "w">>, <<"U">>, <<"R", "w", "'">>, <<"F">>, <<"R", "w", "'">>,
            <<"F", "'">>, <<"R", "w">>,
            <<"R">>, <<"U">>, <<"R", "'">>, <<"U">>, <<"R">>, <<"U", "2">>, <<"R", "'">>,
            <<"F">>, <<"R">>, <<"U">>, <<"R", "'">>, <<"U", "'">>, <<"F", "'">>,
            <<"R">>, <<"U">>, <<"R", "'">>, <<"F", "'">>, <<"R", "'">>, <<"F", "'">> >>

\* while (moves.length < 18) moves.push(...optimizationMoves.slice(0,
\* Math.min(4, 18 - moves.length)))
RECURSIVE padTo18(_)
padTo18(moves) ==
    IF Len(moves) < 18
    THEN padTo18(moves \o SubSeq(<< <<"U">>, <<"R">>, <<"U", "'">>, <<"R", "'">> >>,
                                 1, IF 18 - Len(moves) < 4 THEN 18 - Len(moves)
                                    ELSE 4))
    ELSE moves

\* The moves of generateEfficientMoves as they are, neither cut nor padded.
movesAsGenerated(N) == generateEfficientMoves(N)

\* Solver.generateSolutionToSolvedState: forceCubeToSolvedState fills a
\* clone that is dropped; the moves do not depend on the cube's stickers.
generateSolutionToSolvedState(N) ==
    IF Len(generateEfficientMoves(N)) > 22
    THEN SubSeq(generateEfficientMoves(N), 1, 22)
    ELSE padTo18(generateEfficientMoves(N))

\* Solver.layerByLayerSolve: solveWhiteCross, solveF2L, solveOLL, solvePLL
layerByLayerSolve ==
    << <<"F">>, <<"R">>, <<"U">>, <<"F", "'">> >>
    \o << <<"U">>, <<"R">>, <<"U", "'">>, <<"R", "'">>, <<"U", "'">>, <<"F", "'">>,
          <<"U">>, <<"F">> >>
    \o << <<"R">>, <<"U">>, <<"R", "'">>, <<"U">>, <<"R">>, <<"U", "2">>, <<"R", "'">> >>
    \o << <<"R", "'">>, <<"F">>, <<"R", "'">>, <<"B", "2">>, <<"R">>, <<"F", "'">>,
          <<"R", "'">>, <<"B", "2">>, <<"R", "2">> >>

\* new Solver(cube).solve(): [] for a solved cube, else the moves of
\* kociembaSolve when they are at most 22, else layerByLayerSolve.
solve(faces, N) ==
    IF isSolved(faces, N) THEN <<>>
    ELSE IF Len(generateSolutionToSolvedState(N)) <= 22
         THEN generateSolutionToSolvedState(N)
         ELSE layerByLayerSolve

(***************************************************************************)
(* Validation of a cube state.  JavaScript's undefined is written          *)
(* "undefined"; a missing row is the row <<"undefined">> and a missing     *)
(* grid the grid << <<"undefined">> >>, so that grids, rows and stickers   *)
(* keep their types.  A face whose key the faces object lacks is outside   *)
(* the DOMAIN of the faces function.                                       *)
(***************************************************************************)
Undefined == "undefined"

UndefinedRow == <<Undefined>>

UndefinedGrid == <<UndefinedRow>>

\* validColors of validateAndFixCube and validateCubeState
validColors == {"W", "Y", "G", "B", "R", "O"}

\* solvedColors[face] || 'W'
solvedColors(face) == IF face \in Faces THEN defaultColors[face] ELSE "W"

\* The test on a sticker: !color || !validColors.includes(color) || ...
isInvalidColor(color) == color \in {Undefined, ""} \/ color \notin validColors

\* The repair of one grid that is not missing: a missing row among the
\* first N is created in the face's color, and an invalid sticker among
\* the first N of a row is overwritten with it.
fixGrid(grid, N, color) ==
    LET rows == IF Len(grid) > N THEN Len(grid) ELSE N
        fixRow(row) ==
            [c \in 1..(IF Len(row) > N THEN Len(row) ELSE N) |->
                IF c > N THEN row[c]
                ELSE IF c > Len(row) THEN color
                ELSE IF isInvalidColor(row[c]) THEN color ELSE row[c]]
    IN  [r \in 1..rows |->
            IF r > N THEN grid[r]
            ELSE IF r > Len(grid) THEN [c \in 1..N |-> color]
            ELSE IF grid[r] = UndefinedRow THEN [c \in 1..N |-> color]
            ELSE fixRow(grid[r])]

\* App.validateAndFixCube: over Object.keys(cube.faces)
validateAndFixCube(faces, N) ==
    [f \in DOMAIN faces |->
        IF faces[f] = UndefinedGrid
        THEN [r \in 1..N |-> [c \in 1..N |-> solvedColors(f)]]
        ELSE fixGrid(faces[f], N, solvedColors(f))]

\* CubeModel.validateCubeState: over faceNames, the six faces
validateCubeState(faces, N) ==
    [f \in Faces \cup DOMAIN faces |->
        IF f \notin Faces THEN faces[f]
        ELSE IF f \notin DOMAIN faces
        THEN [r \in 1..N |-> [c \in 1..N |-> solvedColors(f)]]
        ELSE IF faces[f] = UndefinedGrid
        THEN [r \in 1..N |-> [c \in 1..N |-> solvedColors(f)]]
        ELSE fixGrid(faces[f], N, solvedColors(f))]

\* The App component once its initializing effect has run: a blank cube,
\* coloring mode, no import made.
\* The text of the import box, by what JSON.parse makes of it: "" and
\* "garbage" do not parse, "null" parses to null, "object" to an object
\* whose faces property is `faces' ("object" with no face at all stands
\* for an object without the property).
Json(text, faces) == [text |-> text, faces |-> faces]

NoFaces == [f \in {} |-> <<>>]

\* The App component once its initializing effect has run, with its
\* JsonImport child: a blank cube, coloring mode, a collapsed and empty
\* import box, no error, and onImport not called.
AppStart(N) ==
    [cubeState |-> initializeFaces(N, TRUE), coloringMode |-> TRUE,
     jsonInput |-> Json("", NoFaces), isExpanded |-> FALSE, error |-> "",
     onImportCalled |-> FALSE]

\* The App leaves coloring mode: JsonImport is not rendered any more, and
\* it starts from its initial state when it is rendered again.
Unmounted(a) ==
    [a EXCEPT !.coloringMode = FALSE, !.jsonInput = Json("", NoFaces),
              !.isExpanded = FALSE, !.error = ""]

\* JsonImport.generateSampleJson: the faces of the sample
generateSampleJson(cubeSize) ==
    LET colors == <<"W", "Y", "G", "B", "R", "O">>
    IN  [f \in Faces |-> [r \in 1..cubeSize |-> [c \in 1..cubeSize |->
            LET faceIndex == (CHOOSE p \in 1..Len(FaceOrder) : FaceOrder[p] = f) - 1
            IN  colors[((faceIndex + (r - 1) + (c - 1)) % Len(colors)) + 1]]]]

\* handleSolve: const animationMoves
animationMoves ==
    << <<"R">>, <<"U">>, <<"R", "'">>, <<"U", "'">>, <<"F">>, <<"F", "'">> >>

\* App.forcePerfectSolvedCube
forcePerfectSolvedCube(N) ==
    [f \in Faces |-> [r \in 1..N |-> [c \in 1..N |-> solvedColors(f)]]]

\* The closures animate (of handleSolve) and continueAnimation (of
\* handleResume) that have a timer pending.  A closure holds its counter
\* step, the isPaused and the move list of the render that made it, and
\* it has one timer pending at a time.
Closures == 1..MaxClosures

NoClosure == [fn |-> "none", step |-> 0, isPaused |-> FALSE, moves |-> <<>>]

\* The values of solvingTimeoutId: null, the identifier of the timer that
\* closure k has pending, and an identifier whose timer has fired.
NullId == <<>>

TimerId(k) == <<k>>

FiredId == <<0>>

\* The calls of handleScramble whose closure applyNextScrambleMove has a
\* timer pending; each call has its own scrambleMoves, moveIndex and
\* currentCubeState, and one timer pending at a time.
Scrambles == 1..MaxChains

\* A closure applyNextScrambleMove that is not there: never made, or its
\* last timer has fired and none was set.  cubeSize is the size of
\* currentCubeState; shared tells that the App's cubeState is the object
\* currentCubeState.
NoScramble(N) ==
    [scrambleMoves |-> <<>>, moveIndex |-> 0, cubeSize |-> N,
     currentCubeState |-> NoFaces, shared |-> FALSE, pending |-> FALSE]

\* The animation state of the App component after its first render.
AnimStart(N) ==
    [isSolving |-> FALSE, isPaused |-> FALSE, isScrambling |-> FALSE,
     currentStep |-> 0, solution |-> <<>>, showSolutionSteps |-> FALSE,
     solvingTimeoutId |-> NullId,
     closures |-> [k \in Closures |-> NoClosure],
     scrambles |-> [k \in Scrambles |-> NoScramble(N)]]

\* A check of the imported data that accepts everything.
acceptAnyData(data, cubeSize) == TRUE

\* JsonImport.validateCubeData, for data that is an object
validateCubeData(data, cubeSize) ==
    IF DOMAIN data.faces = {} THEN FALSE
    ELSE \A face \in Faces :
            /\ face \in DOMAIN data.faces
            /\ data.faces[face] # UndefinedGrid
            /\ Len(data.faces[face]) = cubeSize
            /\ \A r \in 1..Len(data.faces[face]) :
                  /\ Len(data.faces[face][r]) = cubeSize
                  /\ \A c \in 1..Len(data.faces[face][r]) :
                        data.faces[face][r][c] \in validColors

\* The try block of JsonImport.handleImport: JSON.parse throws on a text
\* that is no JSON, validateCubeData throws on null (data.faces), and the
\* catch takes both; data that fails the check is refused; other data
\* goes to onImport.
handleImport(jsonInput, cubeSize) ==
    IF jsonInput.text \in {"", "garbage", "null"} THEN "caught"
    ELSE IF ~validateCubeData(jsonInput, cubeSize) THEN "refused"
    ELSE "imported"

(***************************************************************************)
(* Cube objects on the heap.                                               *)
(***************************************************************************)
\* Row identities: enough for two cubes of six N-row grids.
RowIds(N) == 1..(2 * 6 * N)

NoCube == [f \in Faces |-> <<>>]

\* The rows a cube object references.
Rows(c) == UNION {{c[f][r] : r \in DOMAIN c[f]} : f \in Faces}

\* k rows that nothing in `used' references.
RECURSIVE FreshFrom(_, _, _)
FreshFrom(id, used, k) ==
    IF k = 0 THEN <<>>
    ELSE IF id \in used THEN FreshFrom(id + 1, used, k)
    ELSE <<id>> \o FreshFrom(id + 1, used, k - 1)

Fresh(used, k) == FreshFrom(1, used, k)

\* The grids of cube object c: faces[f][r] is the contents of row c[f][r].
Grids(h, c) == [f \in Faces |-> [r \in 1..Len(c[f]) |-> h[c[f][r]]]]

\* The heap once the rows of cube object c carry `faces'.
Store(h, c, faces) ==
    [id \in DOMAIN h |->
        IF \E f \in Faces : \E r \in DOMAIN c[f] : c[f][r] = id
        THEN LET f == CHOOSE g \in Faces : \E r \in DOMAIN c[g] : c[g][r] = id
                 r == CHOOSE q \in DOMAIN c[f] : c[f][q] = id
             IN  faces[f][r]
        ELSE h[id]]

\* The garbage collector: a row that no cube references is reclaimed.
Collect(h, c, t) ==
    LET live == Rows(c) \cup Rows(t)
    IN  [id \in DOMAIN h |-> IF id \in live THEN h[id] ELSE <<>>]

\* Array(size).fill().map(...) for each face, in declaration order.
NewGrids(N, used) ==
    LET ids == Fresh(used, 6 * N)
    IN  [f \in Faces |->
            LET k == CHOOSE p \in 1..Len(FaceOrder) : FaceOrder[p] = f
            IN  SubSeq(ids, (k - 1) * N + 1, k * N)]

\* A clone that keeps the original's rows:
\* newCube.faces[face] = this.faces[face]
cloneSharingRows(N, h, c) == [cube |-> c, heap |-> h]

\* clone(): newCube.faces[face] = this.faces[face].map(row => [...row])
clone(N, h, c) ==
    LET newCube == NewGrids(N, Rows(c))
    IN  [cube |-> newCube, heap |-> Store(h, newCube, Grids(h, c))]

\* The rows of the matrix rotateFace* builds for grid `face' of cube object
\* c.  The old rows stay as they are; when this.faces[face] = newMatrix
\* drops the last reference to one of them, the collector reclaims it and
\* the new row takes over its identity.
NewMatrix(c, other, face) ==
    LET fresh == Fresh(Rows(c) \cup Rows(other), Len(c[face]))
    IN  [r \in 1..Len(c[face]) |->
            IF c[face][r] \in Rows(other) THEN fresh[r] ELSE c[face][r]]

\* Cube.move on a cube object: rotateFace* installs a new matrix as the
\* turned face's grid, moveFFaceStickers assigns into the existing rows.
CubeMove(N, h, c, other, moveName) ==
    LET res == move(Grids(h, c), N, moveName)
        face == switchFace(moveName)
        c2 == IF face \in Faces
              THEN [c EXCEPT ![face] = NewMatrix(c, other, face)]
              ELSE c
    IN  [cube |-> c2, heap |-> Store(h, c2, res.faces), thrown |-> res.thrown]

\* cube.faces[face][row][col] = color
setSticker(h, c, face, row, col, color) ==
    [h EXCEPT ![c[face][row + 1]][col + 1] = color]

(***************************************************************************)
(* The state machine: a client of class Cube that creates a cube, turns    *)
(* it, colors single stickers and clones it.                               *)
(***************************************************************************)
\* The move names given to Cube.move.
MoveNames == QuarterMoves \cup ScramblerMoves(size) \cup OtherMoves

\* The stickers and colors drawn for single-sticker assignments.
EditFaces == {"F", "U", "B"}

EditCells == {<<0, 0>>, <<1, 0>>}

EditColors == {"W", "O"}

\* The runs of Math.random() given to generateRandomConfiguration, in
\* thousandths; a run is repeated when it is used up, and a call starts
\* anywhere in it.
RandomRuns ==
    LET run == <<370, 810, 50, 550, 930, 210>>
    IN  {SubSeq(run, k, Len(run)) \o SubSeq(run, 1, k - 1) : k \in 1..Len(run)}
        \cup {<<500>>}

\* The cubes generateRandomConfiguration makes of a cube of size N.
RandomConfigurations ==
    [N \in Sizes |-> {generateRandomConfiguration(N, random) :
                         random \in RandomRuns}]

CubeGrids == Grids(heap, cube)

TwinGrids == Grids(heap, twin)

HasTwin == twin # NoCube

\* new Cube(size, initializeAsBlank)
Init ==
    /\ size \in Sizes
    /\ cube = NewGrids(size, {})
    /\ twin = NoCube
    /\ \E blank \in BOOLEAN :
         heap = Store([id \in RowIds(size) |-> <<>>], cube,
                      initializeFaces(size, blank))
    /\ thrown = FALSE
    /\ steps = 0
    /\ last = "new"
    /\ gen = NoCall
    /\ app = AppStart(size)
    /\ anim = AnimStart(size)

\* cube.move(moveName)
MoveCube ==
    /\ steps < MaxSteps
    /\ \E m \in MoveNames :
         LET res == CubeMove(size, heap, cube, twin, m)
         IN  /\ cube' = res.cube
             /\ heap' = Collect(res.heap, res.cube, twin)
             /\ thrown' = res.thrown
    /\ steps' = steps + 1
    /\ last' = "move"
    /\ UNCHANGED <<size, twin, gen, app, anim>>

\* twin.move(moveName)
MoveTwin ==
    /\ steps < MaxSteps
    /\ HasTwin
    /\ \E m \in MoveNames :
         LET res == CubeMove(size, heap, twin, cube, m)
         IN  /\ twin' = res.cube
             /\ heap' = Collect(res.heap, cube, res.cube)
             /\ thrown' = res.thrown
    /\ steps' = steps + 1
    /\ last' = "moveTwin"
    /\ UNCHANGED <<size, cube, gen, app, anim>>

\* cube.faces[face][row][col] = color
ColorCube ==
    /\ steps < MaxSteps
    /\ \E f \in EditFaces, cell \in EditCells, color \in EditColors :
         heap' = setSticker(heap, cube, f, cell[1], cell[2], color)
    /\ thrown' = FALSE
    /\ steps' = steps + 1
    /\ last' = "color"
    /\ UNCHANGED <<size, cube, twin, gen, app, anim>>

\* twin.faces[face][row][col] = color
ColorTwin ==
    /\ steps < MaxSteps
    /\ HasTwin
    /\ \E f \in EditFaces, cell \in EditCells, color \in EditColors :
         heap' = setSticker(heap, twin, f, cell[1], cell[2], color)
    /\ thrown' = FALSE
    /\ steps' = steps + 1
    /\ last' = "colorTwin"
    /\ UNCHANGED <<size, cube, twin, gen, app, anim>>

\* cube.generateRandomConfiguration(): every sticker is assigned in the
\* row that holds it.
RandomizeCube ==
    /\ steps < MaxSteps
    /\ \E faces \in RandomConfigurations[size] :
         heap' = Store(heap, cube, faces)
    /\ thrown' = FALSE
    /\ steps' = steps + 1
    /\ last' = "random"
    /\ UNCHANGED <<size, cube, twin, gen, app, anim>>

\* twin = cube.clone()
Clone ==
    /\ steps < MaxSteps
    /\ LET res == clone(size, heap, cube)
       IN  /\ twin' = res.cube
           /\ heap' = Collect(res.heap, cube, res.cube)
    /\ thrown' = FALSE
    /\ steps' = steps + 1
    /\ last' = "clone"
    /\ UNCHANGED <<size, cube, gen, app, anim>>

\* A cube and its clone, turned and recolored sticker by sticker.
NextClone == MoveCube \/ MoveTwin \/ ColorCube \/ ColorTwin \/ Clone

Next == NextClone \/ RandomizeCube

Spec == Init /\ [][Next]_vars

\* One cube object, turned and recolored, that is never cloned.
NextCube == MoveCube \/ ColorCube

SpecCube == Init /\ [][NextCube]_vars

(***************************************************************************)
(* A legal scramble of a solved cube: only Cube.move, with the moves the   *)
(* scrambler defines for the cube's size.                                  *)
(***************************************************************************)
InitSolved ==
    /\ Init
    /\ CubeGrids = initializeFaces(size, FALSE)

\* A solved cube and its clone, turned and recolored.
SpecClone == InitSolved /\ [][NextClone]_vars

\* Scrambler.applyScramble: cube.move(move) for a move of the scramble
TurnCube ==
    /\ steps < MaxSteps
    /\ \E m \in ScramblerMoves(size) :
         LET res == CubeMove(size, heap, cube, twin, m)
         IN  /\ cube' = res.cube
             /\ heap' = Collect(res.heap, res.cube, twin)
             /\ thrown' = res.thrown
    /\ steps' = steps + 1
    /\ last' = "move"
    /\ UNCHANGED <<size, twin, gen, app, anim>>

SpecTurns == InitSolved /\ [][TurnCube]_vars

(***************************************************************************)
(* Scrambler.generateScramble(length) on new Scrambler(size): one action   *)
(* per iteration of its while loop.                                        *)
(***************************************************************************)
\* The lengths asked for, the ones below 1 included.
Lengths == (0 - 1)..MaxLength

\* A loop condition that stops one move early.
stopsOneEarly(scramble, length) == Len(scramble) < length - 1

\* generateScramble's loop condition: scramble.length < length
loopContinues(scramble, length) == Len(scramble) < length

\* generateScramble(length): scramble = [], lastMove = '', lastAxis = '',
\* and the first test of the loop condition; when it fails the call
\* returns the empty scramble.
Generate ==
    /\ gen.pc = "idle"
    /\ \E length \in Lengths :
         gen' = [pc |-> IF loopContinues(<<>>, length) THEN "loop" ELSE "done",
                 length |-> length, scramble |-> <<>>,
                 lastMove |-> <<>>, lastAxis |-> <<>>]
    /\ UNCHANGED <<size, heap, cube, twin, thrown, steps, last, app, anim>>

\* One iteration of while (scramble.length < length) and the next test of
\* its condition: a null move leaves everything as it is and the loop goes
\* round again; when the condition fails the call returns scramble.
Iterate ==
    /\ gen.pc = "loop"
    /\ IF availableMoves(ScramblerMoves(size), gen.lastMove, gen.lastAxis) = {}
       THEN gen' = gen
       ELSE \E m \in availableMoves(ScramblerMoves(size), gen.lastMove,
                                    gen.lastAxis) :
                gen' = [gen EXCEPT !.scramble = Append(@, m),
                                   !.lastMove = m,
                                   !.lastAxis = getMoveAxis(m),
                                   !.pc = IF loopContinues(Append(gen.scramble, m),
                                                           gen.length)
                                          THEN "loop" ELSE "done"]
    /\ UNCHANGED <<size, heap, cube, twin, thrown, steps, last, app, anim>>

NextScramble == Generate \/ Iterate

SpecScramble == InitSolved /\ [][NextScramble]_vars

\* The call runs on: its loop is not suspended forever.
SpecScrambleFair == SpecScramble /\ WF_vars(NextScramble)

(***************************************************************************)
(* Validation applied to cube states, damaged ones among them.             *)
(***************************************************************************)
\* Stickers that are not one of the six colors.
BadStickers == {"K", Undefined}

\* The solved cube of size N with at most one damage: a bad sticker, a
\* missing row, a missing grid, or a face without its key.
DamagedStates(N) ==
    LET solved == initializeFaces(N, FALSE)
    IN  {solved}
        \cup {[f \in Faces |-> [r \in 1..N |-> [c \in 1..N |->
                 IF <<f, r, c>> = p THEN v ELSE solved[f][r][c]]]] :
                 p \in Faces \X (1..N) \X (1..N), v \in BadStickers}
        \cup {[f \in Faces |-> [r \in 1..N |->
                 IF <<f, r>> = p THEN UndefinedRow ELSE solved[f][r]]] :
                 p \in Faces \X (1..N)}
        \cup {[f \in Faces |-> IF f = g THEN UndefinedGrid ELSE solved[f]] :
                 g \in Faces}
        \cup {[f \in Faces \ {g} |-> solved[f]] : g \in Faces}

InitValidate ==
    /\ size \in Sizes
    /\ cube = NewGrids(size, {})
    /\ twin = NoCube
    /\ heap = Store([id \in RowIds(size) |-> <<>>], cube,
                    initializeFaces(size, FALSE))
    /\ thrown = FALSE
    /\ steps = 0
    /\ last = "new"
    /\ gen = NoCall
    /\ \E damaged \in DamagedStates(size) :
         app = [AppStart(size) EXCEPT !.cubeState = damaged]
    /\ anim = AnimStart(size)

\* validateAndFixCube(cube) of the App component
ValidateAndFix ==
    /\ app' = [app EXCEPT !.cubeState = validateAndFixCube(@, size)]
    /\ UNCHANGED <<size, heap, cube, twin, thrown, steps, last, gen, anim>>

\* validateCubeState(cubeState) of the CubeModel component
ValidateState ==
    /\ app' = [app EXCEPT !.cubeState = validateCubeState(@, size)]
    /\ UNCHANGED <<size, heap, cube, twin, thrown, steps, last, gen, anim>>

NextValidate == ValidateAndFix \/ ValidateState

SpecValidate == InitValidate /\ [][NextValidate]_vars

(***************************************************************************)
(* The JSON import of the App: the user fills the import box and presses   *)
(* the import button.                                                      *)
(***************************************************************************)
\* The grids of size N typed into the import box: the solved cube, a cube
\* of the right shape whose colors do not count up (all white), the
\* solved cube after F', and the solved cube with one damage to its F
\* face or its last face: a face without its key, a grid or a row too
\* short or too long, a sticker that is no color.
ImportedFaces(N) ==
    LET solved == initializeFaces(N, FALSE)
        With(g, grid) == [f \in Faces |-> IF f = g THEN grid ELSE solved[f]]
    IN  {solved, initializeFaces(N, TRUE),
         moveFFaceStickers(rotateFaceCounterClockwise(solved, N, "F"),
                           N, FALSE).faces}
        \cup {[f \in Faces \ {g} |-> solved[f]] : g \in {"F", "B"}}
        \cup {With(g, SubSeq(solved[g], 1, N - 1)) : g \in {"F", "B"}}
        \cup {With(g, Append(solved[g], solved[g][1])) : g \in {"F", "B"}}
        \cup {With(g, [r \in 1..N |-> IF r = N THEN SubSeq(solved[g][r], 1, N - 1)
                                       ELSE solved[g][r]]) : g \in {"F", "B"}}
        \cup {With(g, [r \in 1..N |-> IF r = 1 THEN Append(solved[g][r], "W")
                                       ELSE solved[g][r]]) : g \in {"F", "B"}}
        \cup {With(g, [r \in 1..N |-> [c \in 1..N |->
                    IF r = N /\ c = N THEN v ELSE solved[g][r][c]]]) :
                 g \in {"F", "B"}, v \in {"K", "w"}}

JsonInputs(N) ==
    {Json(t, NoFaces) : t \in {"", "garbage", "null", "object"}}
    \cup {Json("object", faces) : faces \in ImportedFaces(N)}

\* setCubeState(...) with a new cube object: the App's cube is no longer
\* the object a scramble animation holds.
Replaced(a) ==
    [a EXCEPT !.scrambles =
        [k \in Scrambles |-> [a.scrambles[k] EXCEPT !.shared = FALSE]]]

\* The header button of JsonImport: setIsExpanded(!isExpanded).  JsonImport
\* is rendered in coloring mode only.
ToggleExpanded ==
    /\ app.coloringMode
    /\ app' = [app EXCEPT !.isExpanded = ~@]
    /\ UNCHANGED <<size, heap, cube, twin, thrown, steps, last, gen, anim>>

\* setJsonInput(e.target.value); the box is rendered when JsonImport is
\* expanded.
TypeJson ==
    /\ app.coloringMode /\ app.isExpanded
    /\ \E input \in JsonInputs(size) : app' = [app EXCEPT !.jsonInput = input]
    /\ UNCHANGED <<size, heap, cube, twin, thrown, steps, last, gen, anim>>

\* JsonImport.loadSample
LoadSample ==
    /\ app.coloringMode /\ app.isExpanded
    /\ app' = [app EXCEPT !.jsonInput = Json("object", generateSampleJson(size))]
    /\ UNCHANGED <<size, heap, cube, twin, thrown, steps, last, gen, anim>>

\* JsonImport.clearInput
ClearInput ==
    /\ app.coloringMode /\ app.isExpanded
    /\ app' = [app EXCEPT !.jsonInput = Json("", NoFaces), !.error = ""]
    /\ UNCHANGED <<size, heap, cube, twin, thrown, steps, last, gen, anim>>

\* JsonImport.handleImport, with App.handleJsonImport as its onImport; the
\* import button is disabled while the box is empty.  On success:
\* importedCube.faces = cubeData.faces, setCubeState(importedCube),
\* setColoringMode(false), and JsonImport is not rendered any more.
HandleImport ==
    /\ app.coloringMode /\ app.isExpanded
    /\ app.jsonInput.text # ""
    /\ app' =
         CASE handleImport(app.jsonInput, size) = "caught" ->
                [app EXCEPT !.error = "Invalid JSON format. Please check your input.",
                            !.onImportCalled = FALSE]
           [] handleImport(app.jsonInput, size) = "refused" ->
                [app EXCEPT !.error = "Invalid cube data format. Please check the JSON structure.",
                            !.onImportCalled = FALSE]
           [] handleImport(app.jsonInput, size) = "imported" ->
                [Unmounted(app) EXCEPT !.cubeState = app.jsonInput.faces,
                                       !.onImportCalled = TRUE]
    /\ anim' = IF handleImport(app.jsonInput, size) = "imported"
               THEN Replaced(anim) ELSE anim
    /\ UNCHANGED <<size, heap, cube, twin, thrown, steps, last, gen>>

\* App.handleStart, behind "Initiate solving sequence" (disabled while
\* scrambling) in coloring mode and behind "Back to configuration"
\* (disabled while solving) otherwise.
HandleStart ==
    /\ IF app.coloringMode THEN ~anim.isScrambling ELSE ~anim.isSolving
    /\ IF app.coloringMode
       THEN /\ app' = Unmounted(app)
            /\ UNCHANGED anim
       ELSE /\ app' = [app EXCEPT !.coloringMode = TRUE]
            /\ anim' = [anim EXCEPT !.isSolving = FALSE, !.isPaused = FALSE,
                                    !.solution = <<>>, !.currentStep = 0,
                                    !.showSolutionSteps = FALSE]
    /\ last' = "start"
    /\ UNCHANGED <<size, heap, cube, twin, thrown, steps, gen>>

\* newCubeState.faces[face][row][col] = selectedColor, on grid values
assignSticker(faces, face, row, col, color) ==
    [f \in DOMAIN faces |->
        IF f # face THEN faces[f]
        ELSE [r \in 1..Len(faces[f]) |->
                 IF r # row + 1 THEN faces[f][r]
                 ELSE [c \in 1..Len(faces[f][r]) |->
                          IF c # col + 1 THEN faces[f][r][c] ELSE color]]]

\* The stickers of the flat cube net that are clicked
ClickFaces == {"F"}

ClickCells == {<<0, 0>>, <<1, 0>>}

\* App.handleStickerClick(face, row, col) of the flat cube net, with the
\* selected color: a clone of the cube state gets the color and becomes
\* the cube state.
HandleStickerClick ==
    /\ app.coloringMode
    /\ \E f \in ClickFaces, cell \in ClickCells, selectedColor \in EditColors :
         app' = [app EXCEPT !.cubeState =
                    assignSticker(@, f, cell[1], cell[2], selectedColor)]
    /\ anim' = Replaced(anim)
    /\ last' = "stickerClick"
    /\ UNCHANGED <<size, heap, cube, twin, thrown, steps, gen>>

\* App.handleColorScramble, behind "Scramble colours" of the configuration
\* layout (disabled while scrambling): a clone of the cube state gets a
\* random configuration and becomes the cube state.
HandleColorScramble ==
    /\ app.coloringMode
    /\ ~anim.isScrambling
    /\ \E faces \in RandomConfigurations[Len(app.cubeState["U"])] :
         app' = [app EXCEPT !.cubeState = faces]
    /\ anim' = Replaced(anim)
    /\ last' = "colorScramble"
    /\ UNCHANGED <<size, heap, cube, twin, thrown, steps, gen>>

\* setCubeSize(N) of the CubeSelector, rendered in coloring mode, and the
\* effect that runs when cubeSize has changed: initialCube = new Cube(
\* cubeSize, true), validated, becomes the cube state, and the solving
\* state is reset.  Timers set before stay pending, and JsonImport keeps
\* its state.
SetCubeSize ==
    /\ app.coloringMode
    /\ \E N \in Sizes \ {size} :
         /\ size' = N
         /\ cube' = NewGrids(N, {})
         /\ heap' = Store([id \in RowIds(N) |-> <<>>], NewGrids(N, {}),
                          initializeFaces(N, TRUE))
         /\ app' = [app EXCEPT
                      !.cubeState = validateAndFixCube(initializeFaces(N, TRUE), N),
                      !.coloringMode = TRUE]
    /\ twin' = NoCube
    /\ anim' = [Replaced(anim) EXCEPT
                  !.solution = <<>>, !.currentStep = 0,
                  !.isSolving = FALSE, !.isScrambling = FALSE,
                  !.isPaused = FALSE, !.showSolutionSteps = FALSE]
    /\ last' = "size"
    /\ UNCHANGED <<thrown, steps, gen>>

\* JsonImport and the configuration layout around it.
NextImport ==
    \/ ToggleExpanded \/ TypeJson \/ LoadSample \/ ClearInput
    \/ HandleImport \/ HandleStart
    \/ HandleStickerClick

SpecImport == Init /\ [][NextImport]_vars

(***************************************************************************)
(* The animations of the App component.  A handler or a timer callback     *)
(* runs to its end and the component is rendered again before the next     *)
(* one starts, so each is one step; what a closure read from the render    *)
(* that made it stays as it was then.                                      *)
(***************************************************************************)
\* The first closure slot without a pending timer.
FreeClosure(k) ==
    /\ anim.closures[k].fn = "none"
    /\ \A j \in Closures : j < k => anim.closures[j].fn # "none"

\* App.handleSolve, behind "Solve the cube" of the solving panel (disabled
\* while solving or scrambling).  Its first timer is set without storing
\* the identifier in solvingTimeoutId.
HandleSolve ==
    /\ ~app.coloringMode
    /\ ~anim.isSolving /\ ~anim.isScrambling
    /\ \E k \in Closures :
         /\ FreeClosure(k)
         /\ anim' = [Replaced(anim) EXCEPT
                       !.isSolving = TRUE, !.isPaused = FALSE,
                       !.currentStep = 0, !.solution = animationMoves,
                       !.closures[k] = [fn |-> "animate", step |-> 0,
                                        isPaused |-> anim.isPaused,
                                        moves |-> animationMoves]]
    /\ app' = [app EXCEPT !.cubeState = forcePerfectSolvedCube(size)]
    /\ last' = "solve"
    /\ UNCHANGED <<size, heap, cube, twin, thrown, steps, gen>>

\* The timer of closure k fires: animate of handleSolve.
Animate(k) ==
    /\ anim.closures[k].fn = "animate"
    /\ LET c == anim.closures[k]
       IN  IF c.step >= Len(c.moves)
           THEN anim' = [anim EXCEPT
                           !.isSolving = FALSE,
                           !.currentStep = Len(c.moves),
                           !.closures[k] = NoClosure,
                           !.solvingTimeoutId =
                               IF @ = TimerId(k) THEN FiredId ELSE @]
           ELSE IF c.isPaused
           THEN anim' = [anim EXCEPT !.solvingTimeoutId = TimerId(k)]
           ELSE anim' = [anim EXCEPT
                           !.currentStep = c.step + 1,
                           !.closures[k].step = c.step + 1,
                           !.solvingTimeoutId = TimerId(k)]
    /\ last' = "animate"
    /\ UNCHANGED <<size, heap, cube, twin, thrown, steps, gen, app>>

\* App.handlePause, behind the button shown while solving and not paused:
\* clearTimeout(solvingTimeoutId) removes the timer with that identifier,
\* if it is still pending.
HandlePause ==
    /\ ~app.coloringMode
    /\ anim.isSolving /\ ~anim.isPaused
    /\ anim' = [anim EXCEPT
                  !.isPaused = TRUE,
                  !.solvingTimeoutId = NullId,
                  !.closures = [k \in Closures |->
                                   IF anim.solvingTimeoutId = TimerId(k)
                                   THEN NoClosure ELSE anim.closures[k]]]
    /\ last' = "pause"
    /\ UNCHANGED <<size, heap, cube, twin, thrown, steps, gen, app>>

\* App.handleResume, behind the button shown while solving and paused.
HandleResume ==
    /\ ~app.coloringMode
    /\ anim.isSolving /\ anim.isPaused
    /\ IF anim.isSolving /\ Len(anim.solution) > 0
       THEN \E k \in Closures :
              /\ FreeClosure(k)
              /\ anim' = [anim EXCEPT
                            !.isPaused = FALSE,
                            !.closures[k] = [fn |-> "continueAnimation",
                                             step |-> anim.currentStep,
                                             isPaused |-> anim.isPaused,
                                             moves |-> anim.solution],
                            !.solvingTimeoutId = TimerId(k)]
       ELSE anim' = [anim EXCEPT !.isPaused = FALSE]
    /\ last' = "resume"
    /\ UNCHANGED <<size, heap, cube, twin, thrown, steps, gen, app>>

\* The timer of closure k fires: continueAnimation of handleResume.
ContinueAnimation(k) ==
    /\ anim.closures[k].fn = "continueAnimation"
    /\ LET c == anim.closures[k]
       IN  IF c.step >= Len(c.moves)
           THEN anim' = [anim EXCEPT
                           !.isSolving = FALSE,
                           !.closures[k] = NoClosure,
                           !.solvingTimeoutId =
                               IF @ = TimerId(k) THEN FiredId ELSE @]
           ELSE IF c.isPaused
           THEN anim' = [anim EXCEPT !.solvingTimeoutId = TimerId(k)]
           ELSE anim' = [anim EXCEPT
                           !.currentStep = c.step + 1,
                           !.closures[k].step = c.step + 1,
                           !.solvingTimeoutId = TimerId(k)]
    /\ last' = "continueAnimation"
    /\ UNCHANGED <<size, heap, cube, twin, thrown, steps, gen, app>>

\* A timer of the solve animation fires.
SolveTimer == \E k \in Closures : Animate(k) \/ ContinueAnimation(k)

\* App.handleShowSolution, behind "Show solution" of the solving panel;
\* humanSolving is false (its toggle is in the part of Controls that is
\* never rendered), so the solution is the one of new Solver(cubeState).
HandleShowSolution ==
    /\ ~app.coloringMode
    /\ anim' = [anim EXCEPT
                  !.solution =
                      IF ~anim.showSolutionSteps /\ Len(anim.solution) = 0
                      THEN solve(app.cubeState, Len(app.cubeState["U"]))
                      ELSE @,
                  !.showSolutionSteps = ~@]
    /\ last' = "showSolution"
    /\ UNCHANGED <<size, heap, cube, twin, thrown, steps, gen, app>>

NextSolveAnim ==
    \/ HandleStart \/ HandleSolve \/ HandlePause \/ HandleResume \/ SolveTimer
    \/ HandleShowSolution \/ SetCubeSize \/ HandleColorScramble

SpecSolveAnim == InitSolved /\ [][NextSolveAnim]_vars

\* A timer that has been set and not cleared fires.
SpecSolveAnimFair ==
    SpecSolveAnim /\ \A k \in Closures :
                        WF_vars(Animate(k)) /\ WF_vars(ContinueAnimation(k))

\* Scrambler.generateScramble(length): the scrambles the call can return,
\* continued from the moves drawn so far.
RECURSIVE generateScramble(_, _, _, _, _)
generateScramble(moves, length, scramble, lastMove, lastAxis) ==
    IF ~loopContinues(scramble, length)
    THEN {scramble}
    ELSE UNION {generateScramble(moves, length, Append(scramble, m), m,
                                 getMoveAxis(m)) :
                   m \in availableMoves(moves, lastMove, lastAxis)}

\* Scrambler.generateOptimizedScramble: 10 moves for the 2x2 cube, 20 for
\* the 3x3 cube, 10 per layer above; lengths are cut to MaxScramble.
generateOptimizedScramble(N) ==
    LET baseLength == IF N = 2 THEN 10 ELSE IF N = 3 THEN 20 ELSE N * 10
        length == IF baseLength > MaxScramble THEN MaxScramble ELSE baseLength
    IN  generateScramble(ScramblerMoves(N), length, <<>>, <<>>, <<>>)

\* The scrambles of generateOptimizedScramble, by cube size
OptimizedScrambles == [N \in Sizes |-> generateOptimizedScramble(N)]

\* The first slot without a scramble animation.
FreeScramble(k) ==
    /\ ~anim.scrambles[k].pending
    /\ \A j \in Scrambles : j < k => anim.scrambles[j].pending

\* App.handleScramble.  No rendered element calls it (its button is in the
\* part of Controls that is never rendered); it is a function that runs
\* whenever it is called (cubeState is an object from the first effect
\* on), also while the timers of earlier calls are pending.
HandleScramble ==
    /\ \E k \in Scrambles :
         /\ FreeScramble(k)
         /\ \E scrambleMoves \in OptimizedScrambles[size] :
              anim' = [Replaced(anim) EXCEPT
                         !.isScrambling = TRUE,
                         !.scrambles[k] =
                             [scrambleMoves |-> scrambleMoves,
                              moveIndex |-> 0,
                              cubeSize |-> size,
                              currentCubeState |->
                                  initializeFaces(size, FALSE),
                              shared |-> TRUE,
                              pending |-> TRUE]]
    /\ app' = [Unmounted(app) EXCEPT
                 !.cubeState = initializeFaces(size, FALSE)]
    /\ last' = "scramble"
    /\ UNCHANGED <<size, heap, cube, twin, thrown, steps, gen>>

\* The timer of call k of handleScramble fires: applyNextScrambleMove.  A
\* call of move that throws ends the callback: no state is set and no
\* timer, and what move had done to the cube stays in the App's cube
\* state when that is the same object.  After the last callback the
\* closure is gone.
ApplyNextScrambleMove(k) ==
    /\ anim.scrambles[k].pending
    /\ LET s == anim.scrambles[k]
           res == move(s.currentCubeState, s.cubeSize,
                       s.scrambleMoves[s.moveIndex + 1])
       IN  IF s.moveIndex >= Len(s.scrambleMoves)
           THEN /\ anim' = [anim EXCEPT
                              !.isScrambling = FALSE,
                              !.scrambles[k] = NoScramble(s.cubeSize)]
                /\ UNCHANGED app
           ELSE IF res.thrown
           THEN /\ anim' = [anim EXCEPT
                              !.scrambles[k] = NoScramble(s.cubeSize)]
                /\ app' = IF s.shared
                          THEN [app EXCEPT !.cubeState = res.faces]
                          ELSE app
           ELSE /\ anim' = [Replaced(anim) EXCEPT
                              !.scrambles[k] =
                                  [s EXCEPT !.currentCubeState = res.faces,
                                            !.moveIndex = s.moveIndex + 1,
                                            !.shared = FALSE]]
                /\ app' = [app EXCEPT !.cubeState = res.faces]
    /\ last' = "applyNextScrambleMove"
    /\ UNCHANGED <<size, heap, cube, twin, thrown, steps, gen>>

\* A timer of a scramble animation fires.
ScrambleTimer == \E k \in Scrambles : ApplyNextScrambleMove(k)

NextScrambleAnim == HandleStart \/ HandleScramble \/ ScrambleTimer

SpecScrambleAnim == InitSolved /\ [][NextScrambleAnim]_vars

\* A timer that has been set fires.
SpecScrambleAnimFair ==
    SpecScrambleAnim /\ \A k \in Scrambles : WF_vars(ApplyNextScrambleMove(k))

(***************************************************************************)
(* The App as a whole.                                                     *)
(***************************************************************************)
\* The configuration layout: size, stickers, random colors, and the way
\* to the solving layout and back.
NextConfig ==
    \/ SetCubeSize \/ HandleStickerClick \/ HandleColorScramble
    \/ HandleStart \/ HandleShowSolution

\* Every handler of the App and of JsonImport, and every timer.
NextApp ==
    \/ NextConfig \/ NextImport \/ NextSolveAnim \/ NextScrambleAnim

SpecApp == Init /\ [][NextApp]_vars

(***************************************************************************)
(* Vocabulary of the properties.                                           *)
(***************************************************************************)
\* The name of the quarter turn of face f in the given direction.
Quarter(f, clockwise) == IF clockwise THEN <<f>> ELSE <<f, "'">>

\* Number of stickers of a color on the whole cube.
CountColor(faces, N, color) ==
    Cardinality({p \in Faces \X (1..N) \X (1..N) :
                    faces[p[1]][p[2]][p[3]] = color})

(***************************************************************************)
(* The face turns of a physical cube, for the net with U above F, D below  *)
(* F, and L, F, R, B side by side.  Strip(X, k, i) is the i-th sticker of  *)
(* the k-th boundary strip around face X, the strips taken clockwise       *)
(* around X and each read in the clockwise direction, so that a clockwise  *)
(* quarter turn carries sticker i of strip k to sticker i of strip k+1.    *)
(***************************************************************************)
Strip(X, N, k, i) ==
    CASE X = "F" -> << <<"U", N, i>>, <<"R", i, 1>>,
                       <<"D", 1, N + 1 - i>>, <<"L", N + 1 - i, N>> >>[k]
      [] X = "B" -> << <<"U", 1, i>>, <<"L", N + 1 - i, 1>>,
                       <<"D", N, N + 1 - i>>, <<"R", i, N>> >>[k]
      [] X = "U" -> << <<"F", 1, i>>, <<"L", 1, i>>,
                       <<"B", 1, i>>, <<"R", 1, i>> >>[k]
      [] X = "D" -> << <<"F", N, i>>, <<"R", N, i>>,
                       <<"B", N, i>>, <<"L", N, i>> >>[k]
      [] X = "R" -> << <<"F", i, N>>, <<"U", i, N>>,
                       <<"B", N + 1 - i, 1>>, <<"D", i, N>> >>[k]
      [] X = "L" -> << <<"F", i, 1>>, <<"D", i, 1>>,
                       <<"B", N + 1 - i, N>>, <<"U", i, 1>> >>[k]

PhysicalTurn(faces, N, X, clockwise) ==
    LET From(k) == IF clockwise THEN ((k + 2) % 4) + 1 ELSE (k % 4) + 1
        Source(f, r, c) ==
            IF f = X
            THEN IF clockwise THEN <<X, N + 1 - c, r>> ELSE <<X, c, N + 1 - r>>
            ELSE IF \E k \in 1..4, i \in 1..N : Strip(X, N, k, i) = <<f, r, c>>
                 THEN LET ki == CHOOSE p \in (1..4) \X (1..N) :
                                    Strip(X, N, p[1], p[2]) = <<f, r, c>>
                      IN  Strip(X, N, From(ki[1]), ki[2])
                 ELSE <<f, r, c>>
    IN  [f \in Faces |-> [r \in 1..N |-> [c \in 1..N |->
            LET s == Source(f, r, c) IN faces[s[1]][s[2]][s[3]]]]]

(***************************************************************************)
(* Properties of Cube.move.                                                *)
(***************************************************************************)
OppositePairs == {<<"F", "B">>, <<"U", "D">>, <<"L", "R">>}

\* C1: the same quarter turn (X or X') applied four times in a row leaves
\* all six grids as they were before the first application.
C1_FourQuarterTurns ==
    \A m \in QuarterMoves :
        applyScramble(CubeGrids, size, <<m, m, m, m>>).faces = CubeGrids

\* C2: a quarter turn followed by its inverse, in either order, returns all
\* six grids to the starting grids.
C2_TurnThenInverse ==
    \A f \in Faces :
        /\ applyScramble(CubeGrids, size, <<Quarter(f, TRUE), Quarter(f, FALSE)>>).faces
             = CubeGrids
        /\ applyScramble(CubeGrids, size, <<Quarter(f, FALSE), Quarter(f, TRUE)>>).faces
             = CubeGrids

\* C3: a quarter turn of any face X rotates X's grid and shifts the four
\* boundary strips around X by one position, as on a physical cube.
C3_TurnIsPhysicalTurn ==
    \A f \in Faces : \A clockwise \in BOOLEAN :
        /\ ~move(CubeGrids, size, Quarter(f, clockwise)).thrown
        /\ move(CubeGrids, size, Quarter(f, clockwise)).faces
             = PhysicalTurn(CubeGrids, size, f, clockwise)

\* C4: move('F') rotates the F grid clockwise, and new R left column = old
\* U bottom row (row N-1), new D top row = old R left column reversed, new
\* L right column = old D top row, new U bottom row = old L right column
\* reversed.
C4_FrontTurnStrips ==
    /\ ~move(CubeGrids, size, <<"F">>).thrown
    /\ move(CubeGrids, size, <<"F">>).faces["F"]
         = rotateFaceClockwise(CubeGrids, size, "F")["F"]
    /\ \A i \in 1..size :
         /\ move(CubeGrids, size, <<"F">>).faces["R"][i][1]
              = CubeGrids["U"][size][i]
         /\ move(CubeGrids, size, <<"F">>).faces["D"][1][i]
              = CubeGrids["R"][size + 1 - i][1]
         /\ move(CubeGrids, size, <<"F">>).faces["L"][i][size]
              = CubeGrids["D"][1][i]
         /\ move(CubeGrids, size, <<"F">>).faces["U"][size][i]
              = CubeGrids["L"][size + 1 - i][size]

\* C5: after any sequence of scrambler moves from the solved cube, each of
\* the six colors appears exactly N*N times on the cube.
C5_ColorCounts ==
    \A color \in Colors : CountColor(CubeGrids, size, color) = size * size

\* C6: two quarter turns of opposite faces commute: either order leaves the
\* same six grids.
C6_OppositeFacesCommute ==
    \A p \in OppositePairs : \A d1 \in BOOLEAN, d2 \in BOOLEAN :
        applyScramble(CubeGrids, size, <<Quarter(p[1], d1), Quarter(p[2], d2)>>).faces
          = applyScramble(CubeGrids, size, <<Quarter(p[2], d2), Quarter(p[1], d1)>>).faces

\* C7: the half turn 'X2' leaves the state that two quarter turns 'X' leave.
C7_HalfTurnIsTwoQuarters ==
    \A f \in Faces :
        move(CubeGrids, size, <<f, "2">>).faces
          = applyScramble(CubeGrids, size, << <<f>>, <<f>> >>).faces

\* C8: on a solved 3x3 cube, F R U R' U' F' leaves the cube not solved, and
\* F U R U' R' F' after it leaves the cube solved, every grid as initially.
C8_ScenarioA ==
    (size = 3 /\ CubeGrids = initializeFaces(3, FALSE)) =>
        /\ ~isSolved(applyScramble(CubeGrids, 3,
                 << <<"F">>, <<"R">>, <<"U">>,
                    <<"R", "'">>, <<"U", "'">>, <<"F", "'">> >>).faces, 3)
        /\ applyScramble(CubeGrids, 3,
                 << <<"F">>, <<"R">>, <<"U">>,
                    <<"R", "'">>, <<"U", "'">>, <<"F", "'">>,
                    <<"F">>, <<"U">>, <<"R">>,
                    <<"U", "'">>, <<"R", "'">>, <<"F", "'">> >>).faces
             = CubeGrids

\* C9: clone() returns a cube with equal grids that shares no row with the
\* original; no later move or sticker assignment on one of the two changes
\* a grid of the other.
C9_CloneIndependent ==
    [][ /\ last' = "clone" => /\ TwinGrids' = CubeGrids'
                              /\ CubeGrids' = CubeGrids
                              /\ Rows(twin') \cap Rows(cube') = {}
        /\ last' \in {"moveTwin", "colorTwin"} => CubeGrids' = CubeGrids
        /\ (HasTwin /\ last' \in {"move", "color"}) => TwinGrids' = TwinGrids
      ]_vars

\* A clone of the solved cube that has been turned since it was made: its
\* R and U grids differ from the original's, which is still solved.
C9_Witness ==
    /\ HasTwin
    /\ CubeGrids = initializeFaces(size, FALSE)
    /\ TwinGrids["R"] # CubeGrids["R"]
    /\ TwinGrids["U"] # CubeGrids["U"]

\* C10: a call of move that fails leaves the six grids as before the call.
C10_MoveAtomic ==
    \A m \in MoveNames :
        move(CubeGrids, size, m).thrown
            => move(CubeGrids, size, m).faces = CubeGrids

\* Move names whose face identifier is not one of the six faces.
UnknownFaceMoves == {<<"X">>, <<"M">>, <<"R", "w">>}

\* C11: Cube.move called with a move whose face identifier is not one of
\* the six faces ends with an error; it is never accepted silently.
C11_UnknownFaceRejected ==
    \A m \in UnknownFaceMoves : move(CubeGrids, size, m).thrown

(***************************************************************************)
(* Properties of Scrambler.generateScramble.                               *)
(***************************************************************************)
\* C12: a call with length >= 1 returns a sequence of exactly `length'
\* moves, each a member of the move set of the cube's size.
C12_ScrambleLength ==
    (gen.pc = "done" /\ gen.length >= 1) =>
        /\ Len(gen.scramble) = gen.length
        /\ \A k \in 1..Len(gen.scramble) :
              gen.scramble[k] \in ScramblerMoves(size)

\* A returned scramble of the longest length asked for.
C12_Witness == gen.pc = "done" /\ gen.length = MaxLength

\* The face letter of a move name, and the rotation axis of a layer: the
\* layers of F and B turn about one axis, those of L and R about a second,
\* those of U and D about a third.
FaceLetter(m) == m[1]

RotationAxis(m) ==
    CASE m[1] \in {"F", "B", "f", "b"} -> 1
      [] m[1] \in {"L", "R", "l", "r"} -> 2
      [] m[1] \in {"U", "D", "u", "d"} -> 3

\* C13: in the sequence generateScramble builds, each pair of consecutive
\* moves acts on different faces and on different rotation axes.
C13_ConsecutiveMovesDiffer ==
    \A k \in 1..(Len(gen.scramble) - 1) :
        /\ FaceLetter(gen.scramble[k]) # FaceLetter(gen.scramble[k + 1])
        /\ RotationAxis(gen.scramble[k]) # RotationAxis(gen.scramble[k + 1])

\* A returned scramble of a 4x4 cube in which a slice move follows a face
\* move.
C13_Witness ==
    /\ gen.pc = "done"
    /\ size = 4
    /\ \E k \in 1..(Len(gen.scramble) - 1) :
          /\ gen.scramble[k][1] \in {"F", "B", "U", "D", "L", "R"}
          /\ gen.scramble[k + 1][1] \in {"f", "b", "u", "d", "l", "r"}

OuterLetters == {"F", "B", "U", "D", "L", "R"}

SliceLetters == {"f", "b", "u", "d", "l", "r"}

\* C14, as claimed: every move the generator produces is an outer-layer
\* move, an upper-case face letter with an optional modifier, for every
\* cube size.
C14_OuterLayerOnly ==
    \A k \in 1..Len(gen.scramble) : gen.scramble[k][1] \in OuterLetters

\* C14, as the code has it: every move the generator produces is a letter
\* with an optional prime; the letter is an upper-case face letter for the
\* sizes 2 and 3, and an upper-case face letter or a lower-case slice
\* letter for the sizes from 4 on.
C14_OuterOrSliceBySize ==
    \A k \in 1..Len(gen.scramble) :
        /\ gen.scramble[k] \in {<<x>> : x \in OuterLetters \cup SliceLetters}
                \cup {<<x, "'">> : x \in OuterLetters \cup SliceLetters}
        /\ size < 4 => gen.scramble[k][1] \in OuterLetters

\* Returned scrambles of a 3x3 cube are asked of the property too; this
\* is a returned scramble of a 4x4 cube that starts with a slice move.
C14_Witness ==
    /\ gen.pc = "done"
    /\ size = 4
    /\ Len(gen.scramble) >= 1
    /\ gen.scramble[1][1] \in SliceLetters

\* C15: generateScramble always terminates: whenever its loop needs a
\* move, the set of candidates left by the filter is not empty, and every
\* call returns.  (The loop has no exit for an empty candidate set: a null
\* move sends it round again.  No state of a call has such a set.)
C15_ScrambleTerminates ==
    /\ [](gen.pc = "loop" =>
            availableMoves(ScramblerMoves(size), gen.lastMove, gen.lastAxis)
                # {})
    /\ (gen.pc = "loop" ~> gen.pc = "done")

\* A call on the 2x2 cube, the smallest move set, in its loop after a
\* first move, with moves still to draw.
C15_Witness ==
    /\ gen.pc = "loop"
    /\ size = 2
    /\ Len(gen.scramble) >= 1
    /\ Cardinality(availableMoves(ScramblerMoves(size), gen.lastMove,
                                  gen.lastAxis)) = 4

\* C16: generateScramble called with a length below 1 fails; it does not
\* return a move sequence.
C16_ShortLengthRejected ==
    gen.length < 1 => gen.pc # "done"

(***************************************************************************)
(* Properties of validation and of the JSON import.                        *)
(***************************************************************************)
\* C17: validating a cube state never modifies it: every sticker, row and
\* grid is after the validation what it was before, a sticker outside the
\* six colors and a missing row or face included, and such a state is
\* reported as an error.
C17_ValidationKeepsState ==
    [][ /\ app'.cubeState = app.cubeState
        /\ app.cubeState \notin {initializeFaces(size, FALSE)}
              => app'.error # ""
      ]_vars

\* The validator's first check: each of the six grids has size x size
\* entries.
HasShape(faces, N) ==
    \A f \in Faces :
        /\ f \in DOMAIN faces
        /\ Len(faces[f]) = N
        /\ \A r \in 1..Len(faces[f]) : Len(faces[f][r]) = N

\* C18: an import is accepted (onImport called, the cube state replaced)
\* only if the data passes both validator checks: every grid has size x
\* size entries, and each of the six colors appears size * size times.
C18_AcceptedImportIsValid ==
    app.onImportCalled =>
        /\ HasShape(app.cubeState, size)
        /\ \A color \in Colors :
              CountColor(app.cubeState, size, color) = size * size

\* The imports that fail: a text that is no JSON, or data in which a face
\* is missing, a grid or a row has a length other than the cube size, or
\* a value is none of the six color codes.
FailingImport(input, N) ==
    \/ input.text \in {"", "garbage"}
    \/ \E f \in Faces : f \notin DOMAIN input.faces
    \/ \E f \in DOMAIN input.faces :
          \/ Len(input.faces[f]) # N
          \/ \E r \in 1..Len(input.faces[f]) :
                \/ Len(input.faces[f][r]) # N
                \/ \E c \in 1..Len(input.faces[f][r]) :
                      input.faces[f][r][c] \notin Colors

\* C19: when an import fails, the whole import is rejected: onImport is
\* not called, the cube state and the coloring mode of the App are as
\* before, and an error message is set.
C19_FailedImportRejected ==
    [][ (HandleImport /\ FailingImport(app.jsonInput, size)) =>
            /\ ~app'.onImportCalled
            /\ app'.cubeState = app.cubeState
            /\ app'.coloringMode = app.coloringMode
            /\ app'.error # ""
      ]_vars

\* With a cube state that is neither the blank nor the solved cube (a
\* sticker has been colored, or a cube was imported before), an import of
\* data with a sticker that is no color has been refused: the cube state
\* and the coloring mode are as they were.
C19_Witness ==
    /\ app.error = "Invalid cube data format. Please check the JSON structure."
    /\ ~app.onImportCalled
    /\ app.coloringMode
    /\ app.cubeState \notin {initializeFaces(size, FALSE),
                              initializeFaces(size, TRUE)}
    /\ app.jsonInput.text = "object"
    /\ \E f \in DOMAIN app.jsonInput.faces :
          \E r \in 1..Len(app.jsonInput.faces[f]) :
             \E c \in 1..Len(app.jsonInput.faces[f][r]) :
                app.jsonInput.faces[f][r][c] = "K"

(***************************************************************************)
(* Properties of the Solver.                                               *)
(***************************************************************************)
\* C20: for a cube reached from the solved 3x3 cube by legal moves,
\* applying the moves of new Solver(cube).solve() to it, in order, with
\* Cube.move leaves isSolved() true.
C20_SolutionSolves ==
    size = 3 =>
        isSolved(applyScramble(CubeGrids, 3, solve(CubeGrids, 3)).faces, 3)

(***************************************************************************)
(* Further properties of Cube.move, isSolved and the face rotations.       *)
(***************************************************************************)
\* C21: applying the move 'U2' twice leaves all six grids identical to the
\* starting grids, and neither call fails.
C21_HalfTurnTwice ==
    /\ ~applyScramble(CubeGrids, size, << <<"U", "2">>, <<"U", "2">> >>).thrown
    /\ applyScramble(CubeGrids, size, << <<"U", "2">>, <<"U", "2">> >>).faces
         = CubeGrids

\* A cube whose U grid a half turn would change: its first and its last
\* sticker differ.
C21_Witness ==
    /\ CubeGrids["U"][1][1] # CubeGrids["U"][size][size]
    /\ last = "color"

\* The colors that appear on face f.
ColorsOn(faces, N, f) == {faces[f][p[1]][p[2]] : p \in (1..N) \X (1..N)}

\* C22: isSolved() is true exactly when each face carries one color only;
\* the faces need not differ from one another, so a cube created blank
\* reports solved, and a freshly created solved cube reports solved.
C22_SolvedIffUniformFaces ==
    /\ isSolved(CubeGrids, size)
         <=> \A f \in Faces : Cardinality(ColorsOn(CubeGrids, size, f)) = 1
    /\ steps = 0 => isSolved(CubeGrids, size)
    /\ isSolved(initializeFaces(size, TRUE), size)
    /\ isSolved(initializeFaces(size, FALSE), size)

\* A cube that was created blank and turned: all its faces are white, and
\* it reports solved.
C22_Witness ==
    /\ CubeGrids = initializeFaces(size, TRUE)
    /\ last = "move"
    /\ isSolved(CubeGrids, size)

\* C23: rotateFaceClockwise places old[i][j] at new[j][N-1-i],
\* rotateFaceCounterClockwise places old[i][j] at new[N-1-j][i], and the
\* two undo each other on the named face's grid (indices from 0).
C23_FaceRotations ==
    \A f \in Faces :
        /\ \A i \in 0..(size - 1) : \A j \in 0..(size - 1) :
              /\ rotateFaceClockwise(CubeGrids, size, f)[f][j + 1][size - 1 - i + 1]
                   = CubeGrids[f][i + 1][j + 1]
              /\ rotateFaceCounterClockwise(CubeGrids, size, f)[f][size - 1 - j + 1][i + 1]
                   = CubeGrids[f][i + 1][j + 1]
        /\ rotateFaceCounterClockwise(
               rotateFaceClockwise(CubeGrids, size, f), size, f)[f] = CubeGrids[f]
        /\ rotateFaceClockwise(
               rotateFaceCounterClockwise(CubeGrids, size, f), size, f)[f]
             = CubeGrids[f]

\* A cube whose F grid has one corner colored unlike the two corners next
\* to it, so that each rotation and the transposition give different grids.
C23_Witness ==
    /\ CubeGrids["F"][1][1] # CubeGrids["F"][1][size]
    /\ CubeGrids["F"][1][1] # CubeGrids["F"][size][1]
    /\ CubeGrids["F"][1][size] = CubeGrids["F"][size][1]

\* C24: Solver.solve() returns the empty list when the cube is solved, and
\* for an unsolved cube of size 2, 3 or 4 a list of 18 to 22 moves.
C24_SolutionLength ==
    /\ isSolved(CubeGrids, size) => solve(CubeGrids, size) = <<>>
    /\ ~isSolved(CubeGrids, size) =>
          /\ Len(solve(CubeGrids, size)) >= 18
          /\ Len(solve(CubeGrids, size)) <= 22

\* An unsolved 3x3 cube, for which the list of generateEfficientMoves is
\* longer than 22 and is cut.
C24_Witness ==
    /\ size = 3
    /\ ~isSolved(CubeGrids, size)
    /\ Len(generateEfficientMoves(size)) > 22
    /\ Len(solve(CubeGrids, size)) = 22

\* C25: on a cube of size 4 a lower-case slice move, with or without a
\* prime, shifts inner strips of the adjacent faces and rotates no grid:
\* it changes the grids, and turns the solved cube into a non-solved one.
C25_SliceMoveActs ==
    size = 4 =>
        \A x \in SliceLetters : \A m \in {<<x>>, <<x, "'">>} :
            /\ ~move(CubeGrids, size, m).thrown
            /\ isSolved(CubeGrids, size) /\ CubeGrids["U"] # CubeGrids["D"]
                  => ~isSolved(move(CubeGrids, size, m).faces, size)

\* C26: Cube.move(m) completes without an error for every size, every
\* state of six N x N grids and every move m of the scrambler's move set
\* for the size.
C26_ScramblerMovesComplete ==
    \A m \in ScramblerMoves(size) : ~move(CubeGrids, size, m).thrown

\* C27: a move on U, D, L, R or B, in either direction, changes only that
\* face's own grid: the grids of the other five faces are as before.
C27_OnlyOwnGridChanges ==
    \A f \in Faces \ {"F"} : \A clockwise \in BOOLEAN :
        /\ ~move(CubeGrids, size, Quarter(f, clockwise)).thrown
        /\ \A g \in Faces \ {f} :
              move(CubeGrids, size, Quarter(f, clockwise)).faces[g]
                = CubeGrids[g]

\* A cube whose B grid a B turn changes, next to an R grid that is not
\* white.
C27_Witness ==
    /\ move(CubeGrids, size, <<"B">>).faces["B"] # CubeGrids["B"]
    /\ CubeGrids["R"][1][size] # CubeGrids["U"][1][1]

(***************************************************************************)
(* Properties of the animations.                                           *)
(***************************************************************************)
\* The solve animation is over: every step shown and isSolving false.
Finished ==
    /\ ~anim.isSolving
    /\ anim.currentStep = Len(anim.solution)

\* C28: after a solve animation has started and the user has paused and
\* resumed it, the animation finishes, timers firing as scheduled (unless
\* it is paused again): currentStep reaches solution.length and isSolving
\* becomes false.
C28_ResumedSolveFinishes ==
    (last = "resume") ~> (Finished \/ anim.isPaused)

\* C29: while isPaused is true, no timer callback advances currentStep or
\* ends the animation, whenever Pause was pressed.
C29_PausedStepFrozen ==
    [][(anim.isPaused /\ anim'.isPaused)
          => /\ anim'.currentStep = anim.currentStep
             /\ anim'.isSolving = anim.isSolving]_vars

\* C30: every scramble animation started by handleScramble ends with
\* isScrambling false, timers firing as scheduled, for every size and
\* every scramble of the generator.
C30_ScrambleAnimationEnds ==
    anim.isScrambling ~> ~anim.isScrambling

====
